---- MODULE Spec2Model ----
(***************************************************************************)
(* merge_micmac_xml.py: merge of MicMac SetOfMesureAppuisFlottants files   *)
(* (image name -> point id -> (x, y)) with --keep / --exclude filters and  *)
(* a sorted re-serialisation.                                              *)
(*                                                                         *)
(* Strings are sequences of one-character strings, so that split, strip,   *)
(* isdigit, len and the lexicographic order are computed, not assumed.     *)
(* Python's None / Optional is a sequence of length 0 or 1.  A dict is a   *)
(* sequence of [k, v] entries in insertion order.                          *)
(***************************************************************************)
EXTENDS Integers, Sequences, FiniteSets, TLC

\* ------------------------------------------------------------------ bounds
MaxFiles == 2      \* input files on the command line
MaxElems == 4      \* XML elements (image elements + measures) read in the run
MaxIds == 4        \* point ids of one image handed to the sort
MaxFileElems == 3  \* XML elements of a file merged with itself
MaxPairElems == 2  \* XML elements of each of two files merged in both orders

\* ----------------------------------------------------------------- strings
None == <<>>
Some(x) == <<x>>
IsNone(o) == Len(o) = 0
Val(o) == o[1]

Digits == {"0", "1", "2", "3", "4", "5", "6", "7", "8", "9"}

\* Code point of a character (str comparison is by code point).
CodePoint(c) ==
    CASE c = " " -> 32 [] c = "," -> 44
      [] c = "0" -> 48 [] c = "1" -> 49 [] c = "2" -> 50 [] c = "3" -> 51
      [] c = "4" -> 52 [] c = "5" -> 53 [] c = "6" -> 54 [] c = "7" -> 55
      [] c = "8" -> 56 [] c = "9" -> 57
      [] c = "a" -> 97 [] c = "b" -> 98 [] c = "c" -> 99 [] c = "x" -> 120

DigitVal(c) == CodePoint(c) - 48

\* str < str
RECURSIVE StrLess(_, _)
StrLess(s, t) ==
    IF Len(t) = 0 THEN FALSE
    ELSE IF Len(s) = 0 THEN TRUE
    ELSE IF CodePoint(Head(s)) # CodePoint(Head(t))
         THEN CodePoint(Head(s)) < CodePoint(Head(t))
    ELSE StrLess(Tail(s), Tail(t))

\* str.isdigit(): non-empty and every character a digit
IsDigit(s) == Len(s) > 0 /\ \A i \in 1..Len(s) : s[i] \in Digits

\* str.strip() for the whitespace of the alphabet
RECURSIVE LStrip(_)
LStrip(s) == IF Len(s) > 0 /\ Head(s) = " " THEN LStrip(Tail(s)) ELSE s

RECURSIVE RStrip(_)
RStrip(s) ==
    IF Len(s) > 0 /\ s[Len(s)] = " " THEN RStrip(SubSeq(s, 1, Len(s) - 1)) ELSE s

Strip(s) == RStrip(LStrip(s))

\* str.split(sep): every field between separators, empty ones included
RECURSIVE SplitOn(_, _, _)
SplitOn(s, sep, cur) ==
    IF Len(s) = 0 THEN <<cur>>
    ELSE IF Head(s) = sep THEN <<cur>> \o SplitOn(Tail(s), sep, <<>>)
    ELSE SplitOn(Tail(s), sep, Append(cur, Head(s)))

\* str.split(): runs of non-whitespace, no empty fields
SplitWs(s) == SelectSeq(SplitOn(s, " ", <<>>), LAMBDA f : Len(f) > 0)

\* float(tok) for the tokens of the alphabet: a digit string has its decimal
\* value, any other token raises ValueError (None here).
RECURSIVE DecimalValue(_, _)
DecimalValue(s, acc) ==
    IF Len(s) = 0 THEN acc ELSE DecimalValue(Tail(s), 10 * acc + DigitVal(Head(s)))

Float(tok) == IF IsDigit(tok) THEN Some(DecimalValue(tok, 0)) ELSE None

\* ------------------------------------------------------------------- dicts
Has(d, k) == \E i \in 1..Len(d) : d[i].k = k
Get(d, k) == d[CHOOSE i \in 1..Len(d) : d[i].k = k].v
Put(d, k, v) ==
    IF Has(d, k) THEN [i \in 1..Len(d) |-> IF d[i].k = k THEN [k |-> k, v |-> v] ELSE d[i]]
    ELSE Append(d, [k |-> k, v |-> v])
Keys(d) == [i \in 1..Len(d) |-> d[i].k]
\* defaultdict(dict).__getitem__: a missing key is created with an empty dict
Touch(d, k) == IF Has(d, k) THEN d ELSE Append(d, [k |-> k, v |-> <<>>])

\* -------------------------------------------------------- write_xml_output
BigLen == 999999

\* SortKey with a fault: the length is left out of the key of an all-digit id
SortKeyNoLen(x) == IF IsDigit(x) THEN <<0, x>> ELSE <<BigLen, x>>

\* the sort key of line 130: (len(x), x) if x.isdigit() else (999999, x)
SortKey(x) == IF IsDigit(x) THEN <<Len(x), x>> ELSE <<BigLen, x>>

\* tuple comparison k1 < k2
KeyLess(k1, k2) == k1[1] < k2[1] \/ (k1[1] = k2[1] /\ StrLess(k1[2], k2[2]))

\* sorted(ids, key=...): a stable sort; x goes after every element whose key
\* is not greater than its own
RECURSIVE InsertSorted(_, _)
InsertSorted(srt, x) ==
    IF Len(srt) = 0 THEN <<x>>
    ELSE IF KeyLess(SortKey(x), SortKey(Head(srt))) THEN <<x>> \o srt
    ELSE <<Head(srt)>> \o InsertSorted(Tail(srt), x)

\* SortedIds with a fault: the keys are iterated as they are, without sorted()
SortedIdsUnsorted(ids) == ids

RECURSIVE SortedIds(_)
SortedIds(ids) ==
    IF Len(ids) = 0 THEN <<>>
    ELSE InsertSorted(SortedIds(SubSeq(ids, 1, Len(ids) - 1)), ids[Len(ids)])

\* sorted(images_data.keys()): image names in lexicographic order
RECURSIVE InsertName(_, _)
InsertName(srt, x) ==
    IF Len(srt) = 0 THEN <<x>>
    ELSE IF StrLess(x, Head(srt)) THEN <<x>> \o srt
    ELSE <<Head(srt)>> \o InsertName(Tail(srt), x)

RECURSIVE SortedNames(_)
SortedNames(names) ==
    IF Len(names) = 0 THEN <<>>
    ELSE InsertName(SortedNames(SubSeq(names, 1, Len(names) - 1)), names[Len(names)])

\* the document: one element per image in name order, its measures in key order
Document(data) ==
    LET names == SortedNames(Keys(data))
    IN [i \in 1..Len(names) |->
          LET pts == Get(data, names[i])
              ids == SortedIds(Keys(pts))
          IN [NameIm |-> names[i],
              measures |-> [j \in 1..Len(ids) |->
                              [NamePt |-> ids[j], PtIm |-> Get(pts, ids[j])]]]]

\* --------------------------------------------------------------- parse_list
\* [item.strip() for item in list_str.split(',') if item.strip()], None for
\* an absent or empty string
StripAll(items) == [i \in 1..Len(items) |-> Strip(items[i])]
parse_list(list_str) ==
    IF IsNone(list_str) \/ Len(Val(list_str)) = 0 THEN None
    ELSE Some(SelectSeq(StripAll(SplitOn(Val(list_str), ",", <<>>)),
                        LAMBDA it : Len(it) > 0))

\* set(lst) if lst else None: an empty list is falsy
ToSet(lst) == {lst[i] : i \in 1..Len(lst)}
FilterSet(lst) ==
    IF IsNone(lst) \/ Len(Val(lst)) = 0 THEN None ELSE Some(ToSet(Val(lst)))

\* ----------------------------------------------------------- parse_xml_file
RootTag == "SetOfMesureAppuisFlottants"

Msg(kind, image, point) == [kind |-> kind, image |-> image, point |-> point]

\* The body of the loop over OneMesureAF1I (lines 49-73) for one measure m of
\* the image image_name.  m.NamePt is None when the element is missing;
\* m.PtIm is None when the element is missing, Some(None) when it has no text.
\* err: an exception nothing catches (None.strip() is an AttributeError).
ParseMeasure(data, image_name, m) ==
    IF IsNone(m.NamePt) \/ IsNone(m.PtIm)
    THEN [data |-> data, err |-> FALSE, msg |-> Some(Msg("invalid_measure", image_name, None))]
    ELSE LET point_id == Val(m.NamePt)
             text == Val(m.PtIm)
         IN IF IsNone(text)
            THEN [data |-> data, err |-> TRUE, msg |-> Some(Msg("AttributeError", image_name, point_id))]
            ELSE LET coords == SplitWs(Strip(Val(text)))
                     bad == [data |-> data, err |-> FALSE,
                             msg |-> Some(Msg("non_numerical", image_name, point_id))]
                 IN IF Len(coords) >= 2
                    THEN IF IsNone(Float(coords[1])) \/ IsNone(Float(coords[2])) THEN bad
                         ELSE LET xy == <<Val(Float(coords[1])), Val(Float(coords[2]))>>
                                  touched == Touch(data, image_name)
                                  points == Get(touched, image_name)
                              IN IF Has(points, point_id)
                                 THEN [data |-> touched, err |-> FALSE,
                                       msg |-> Some(Msg("duplicate_in_file", image_name, point_id))]
                                 ELSE [data |-> Put(touched, image_name, Put(points, point_id, xy)),
                                       err |-> FALSE, msg |-> None]
                    ELSE [data |-> data, err |-> FALSE,
                          msg |-> Some(Msg("invalid_format", image_name, point_id))]

\* the inner loop (line 48) over the measures ms of one image element
RECURSIVE ParseMeasures(_, _, _, _)
ParseMeasures(data, log, image_name, ms) ==
    IF Len(ms) = 0 THEN [data |-> data, err |-> FALSE, log |-> log]
    ELSE LET r == ParseMeasure(data, image_name, Head(ms))
         IN IF r.err THEN [data |-> r.data, err |-> TRUE, log |-> log \o r.msg]
            ELSE ParseMeasures(r.data, log \o r.msg, image_name, Tail(ms))

\* the outer loop (lines 40-46) over the image elements ims
RECURSIVE ParseImages(_, _, _)
ParseImages(data, log, ims) ==
    IF Len(ims) = 0 THEN [data |-> data, err |-> FALSE, log |-> log]
    ELSE IF IsNone(Head(ims).NameIm)
         THEN ParseImages(data, Append(log, Msg("missing_NameIm", None, None)), Tail(ims))
    ELSE LET r == ParseMeasures(data, log, Val(Head(ims).NameIm), Head(ims).measures)
         IN IF r.err THEN r ELSE ParseImages(r.data, r.log, Tail(ims))

\* A file is [kind, root, images]: kind "missing" (no such file), "vanished"
\* (a file when os.path.isfile looks, gone when ET.parse opens it),
\* "malformed" (not well-formed XML) or "xml".
IsFile(file) == file.kind # "missing"

\* What ET.parse and the root check do with a file (lines 24-36): "ok" when
\* the loop over its image elements is entered.
OpenFile(file) ==
    IF file.kind \in {"missing", "vanished"} THEN "not_found"
    ELSE IF file.kind = "malformed" THEN "parse_error"
    ELSE IF file.root # RootTag THEN "wrong_root"
    ELSE "ok"

parse_xml_file(file) ==
    IF OpenFile(file) # "ok"
    THEN [data |-> <<>>, err |-> FALSE, log |-> <<Msg(OpenFile(file), None, None)>>]
    ELSE ParseImages(<<>>, <<>>, file.images)

\* ---------------------------------------------------------- merge_xml_files
\* the (image_name, points) / (point_id, coords) pairs of the two nested
\* loops of lines 98-99, in iteration order
RECURSIVE Items(_)
Items(data) ==
    IF Len(data) = 0 THEN <<>>
    ELSE [j \in 1..Len(Head(data).v) |->
            [image |-> Head(data).k, point |-> Head(data).v[j].k, coords |-> Head(data).v[j].v]]
         \o Items(Tail(data))

\* MergePoint with a fault: a point that already exists is overwritten
MergePointLastWins(all, keep_set, exclude_set, it) ==
    IF ~IsNone(keep_set) /\ it.point \notin Val(keep_set)
    THEN [data |-> all, msg |-> None]
    ELSE IF ~IsNone(exclude_set) /\ it.point \in Val(exclude_set)
    THEN [data |-> all, msg |-> None]
    ELSE LET touched == Touch(all, it.image)
             points == Get(touched, it.image)
         IN [data |-> Put(touched, it.image, Put(points, it.point, it.coords)),
             msg |-> IF Has(points, it.point)
                     THEN Some(Msg("already_exists", it.image, it.point)) ELSE None]

\* MergePoint with a fault: the point id is looked up among the image names
\* (point_id in all_images_data), so a point is never found to exist
MergePointWrongLookup(all, keep_set, exclude_set, it) ==
    IF ~IsNone(keep_set) /\ it.point \notin Val(keep_set)
    THEN [data |-> all, msg |-> None]
    ELSE IF ~IsNone(exclude_set) /\ it.point \in Val(exclude_set)
    THEN [data |-> all, msg |-> None]
    ELSE LET touched == Touch(all, it.image)
             points == Get(touched, it.image)
         IN IF Has(touched, it.point)
            THEN [data |-> touched, msg |-> Some(Msg("already_exists", it.image, it.point))]
            ELSE [data |-> Put(touched, it.image, Put(points, it.point, it.coords)),
                  msg |-> None]

\* MergePoint with a fault: a new point replaces the image's dict
\* (all_images_data[image_name] = {point_id: coords})
MergePointReplaceImage(all, keep_set, exclude_set, it) ==
    IF ~IsNone(keep_set) /\ it.point \notin Val(keep_set)
    THEN [data |-> all, msg |-> None]
    ELSE IF ~IsNone(exclude_set) /\ it.point \in Val(exclude_set)
    THEN [data |-> all, msg |-> None]
    ELSE LET touched == Touch(all, it.image)
             points == Get(touched, it.image)
         IN IF Has(points, it.point)
            THEN [data |-> touched, msg |-> Some(Msg("already_exists", it.image, it.point))]
            ELSE [data |-> Put(touched, it.image, Put(<<>>, it.point, it.coords)),
                  msg |-> None]

\* MergePoint with a fault: all_images_data[image_name] is read before the
\* filters are applied
MergePointTouchFirst(all, keep_set, exclude_set, it) ==
    LET touched == Touch(all, it.image)
        points == Get(touched, it.image)
    IN IF ~IsNone(keep_set) /\ it.point \notin Val(keep_set)
       THEN [data |-> touched, msg |-> None]
       ELSE IF ~IsNone(exclude_set) /\ it.point \in Val(exclude_set)
       THEN [data |-> touched, msg |-> None]
       ELSE IF Has(points, it.point)
       THEN [data |-> touched, msg |-> Some(Msg("already_exists", it.image, it.point))]
       ELSE [data |-> Put(touched, it.image, Put(points, it.point, it.coords)),
             msg |-> None]

\* the body of the inner loop (lines 100-110) for one item
MergePoint(all, keep_set, exclude_set, it) ==
    IF ~IsNone(keep_set) /\ it.point \notin Val(keep_set)
    THEN [data |-> all, msg |-> None]
    ELSE IF ~IsNone(exclude_set) /\ it.point \in Val(exclude_set)
    THEN [data |-> all, msg |-> None]
    ELSE LET touched == Touch(all, it.image)
             points == Get(touched, it.image)
         IN IF Has(points, it.point)
            THEN [data |-> touched, msg |-> Some(Msg("already_exists", it.image, it.point))]
            ELSE [data |-> Put(touched, it.image, Put(points, it.point, it.coords)),
                  msg |-> None]

RECURSIVE MergeItems(_, _, _, _, _)
MergeItems(all, log, keep_set, exclude_set, items) ==
    IF Len(items) = 0 THEN [data |-> all, log |-> log]
    ELSE LET r == MergePoint(all, keep_set, exclude_set, Head(items))
         IN MergeItems(r.data, log \o r.msg, keep_set, exclude_set, Tail(items))

\* the loop over xml_files (lines 91-110)
RECURSIVE MergeFiles(_, _, _, _, _)
MergeFiles(all, log, keep_set, exclude_set, files) ==
    IF Len(files) = 0 THEN [data |-> all, err |-> FALSE, log |-> log]
    ELSE IF ~IsFile(Head(files))
         THEN MergeFiles(all, Append(log, Msg("does_not_exist", None, None)),
                         keep_set, exclude_set, Tail(files))
    ELSE LET p == parse_xml_file(Head(files))
         IN IF p.err THEN [data |-> all, err |-> TRUE, log |-> log \o p.log]
            ELSE LET r == MergeItems(all, log \o p.log, keep_set, exclude_set, Items(p.data))
                 IN MergeFiles(r.data, r.log, keep_set, exclude_set, Tail(files))

merge_xml_files(xml_files, keep_list, exclude_list) ==
    MergeFiles(<<>>, <<>>, FilterSet(keep_list), FilterSet(exclude_list), xml_files)

\* --------------------------------------------------------------- the inputs
ImageNames == {<<"a">>, <<"b">>}
PointIds == {<<"1">>, <<"2">>}
\* the text of a PtIm element
PtImTexts ==
    { <<"1", " ", "2">>, <<"2", " ", "1">>, <<" ", "1", " ", " ", "2", " ">>,
      <<"1", " ", "2", " ", "x">>,
      <<>>, <<" ">>, <<"1">>, <<"x", " ", "1">>, <<"1", " ", "x">> }
OptNameIm == {None} \cup {Some(n) : n \in ImageNames}
OptNamePt == {None} \cup {Some(p) : p \in PointIds}
OptPtIm == {None, Some(None)} \cup {Some(Some(t)) : t \in PtImTexts}
MeasureElems == [NamePt : OptNamePt, PtIm : OptPtIm]
\* the value of --keep / --exclude: None when the option is not given
ListArgs ==
    { None, Some(<<",">>), Some(<<"1">>), Some(<<"2", ",", " ", "1">>) }
ExcludeArgs == { None, Some(<<",">>), Some(<<"1">>) }
FileHeads ==
    { [kind |-> k, root |-> RootTag, images |-> <<>>] :
        k \in {"missing", "vanished", "malformed", "xml"} }
    \cup { [kind |-> "xml", root |-> "DicoAppuisFlottant", images |-> <<>>] }

\* ---------------------------------------------------------------- the state
VARIABLES
    pc,               \* where the run is
    args_keep,        \* args.keep
    args_exclude,     \* args.exclude
    keep_list,        \* main: parse_list(args.keep)
    exclude_list,     \* main: parse_list(args.exclude)
    keep_set,         \* merge_xml_files: keep_set
    exclude_set,      \* merge_xml_files: exclude_set
    nfiles,           \* files of args.input_files the loop of line 91 has taken
    nelems,           \* XML elements read so far
    image_name,       \* parse_xml_file: image_name
    images_data,      \* parse_xml_file: images_data, then merge_xml_files: images_data
    cursor,           \* position of the loops of lines 98-99 in Items(images_data)
    all_images_data,  \* merge_xml_files: all_images_data
    stderr,           \* the kind of the last line printed to sys.stderr
    exit_code,        \* the process's exit code, None while it runs
    output,           \* the output file's document, None while there is no file
    first,            \* history: per key, the first valid record read
    point_ids,        \* sort: the keys() of one image, in insertion order
    emitted,          \* sort: the order write_xml_output emits them in
    xml_files,        \* merge: the list of files handed to merge_xml_files
    merged,           \* merge: what merge_xml_files returns for xml_files
    merged_alt        \* merge: what it returns for the list doubled / reversed

vars == <<pc, args_keep, args_exclude, keep_list, exclude_list, keep_set, exclude_set,
          nfiles, nelems, image_name, images_data, cursor, all_images_data, stderr,
          exit_code, output, first, point_ids, emitted, xml_files, merged, merged_alt>>

runVars == <<pc, args_keep, args_exclude, keep_list, exclude_list, keep_set, exclude_set,
             nfiles, nelems, image_name, images_data, cursor, all_images_data, stderr,
             exit_code, output, first>>
sortVars == <<point_ids, emitted>>
mergeVars == <<xml_files, merged, merged_alt>>

\* a record that parse_xml_file can store: all three fields, and a PtIm text
\* whose first two whitespace-separated tokens are numbers
Tokens(m) == SplitWs(Strip(Val(Val(m.PtIm))))
IsValidRecord(m) ==
    /\ ~IsNone(m.NamePt)
    /\ ~IsNone(m.PtIm)
    /\ ~IsNone(Val(m.PtIm))
    /\ Len(Tokens(m)) >= 2
    /\ ~IsNone(Float(Tokens(m)[1]))
    /\ ~IsNone(Float(Tokens(m)[2]))
CoordsOf(m) == <<Val(Float(Tokens(m)[1])), Val(Float(Tokens(m)[2]))>>

RunIdle ==
    /\ pc = "idle" /\ args_keep = None /\ args_exclude = None
    /\ keep_set = None /\ exclude_set = None
    /\ nfiles = 0 /\ nelems = 0 /\ image_name = <<>> /\ images_data = <<>>
    /\ cursor = 1 /\ all_images_data = <<>> /\ stderr = None /\ exit_code = None
    /\ output = None /\ first = {}
SortIdle == point_ids = <<>> /\ emitted = None
MergeIdle == xml_files = <<>> /\ merged = None /\ merged_alt = None

\* ------------------------------------------------------------------ the run
Init ==
    /\ pc = "args"
    /\ args_keep \in ListArgs
    /\ args_exclude \in ExcludeArgs
    /\ keep_list = None /\ exclude_list = None /\ keep_set = None /\ exclude_set = None
    /\ nfiles = 0 /\ nelems = 0 /\ image_name = <<>> /\ images_data = <<>>
    /\ cursor = 1 /\ all_images_data = <<>> /\ stderr = None /\ exit_code = None
    /\ output = None /\ first = {}
    /\ SortIdle /\ MergeIdle

\* main, lines 197-201
ParseArgs ==
    /\ pc = "args"
    /\ keep_list' = parse_list(args_keep)
    /\ exclude_list' = parse_list(args_exclude)
    /\ pc' = "merge"
    /\ UNCHANGED <<args_keep, args_exclude, keep_set, exclude_set, nfiles, nelems,
                   image_name, images_data, cursor, all_images_data, stderr, exit_code,
                   output, first, sortVars, mergeVars>>

\* merge_xml_files, lines 85-89
MergeStart ==
    /\ pc = "merge"
    /\ all_images_data' = <<>>
    /\ keep_set' = FilterSet(keep_list)
    /\ exclude_set' = FilterSet(exclude_list)
    /\ pc' = "next_file"
    /\ UNCHANGED <<args_keep, args_exclude, keep_list, exclude_list, nfiles, nelems,
                   image_name, images_data, cursor, stderr, exit_code, output, first,
                   sortVars, mergeVars>>

\* one turn of the loop of line 91 up to the parser's loop: lines 92-96, 24-38
NextFile ==
    /\ pc = "next_file"
    /\ nfiles < MaxFiles
    /\ \E file \in FileHeads :
         IF ~IsFile(file)
         THEN /\ stderr' = Some("does_not_exist")
              /\ nfiles' = nfiles + 1
              /\ UNCHANGED <<pc, images_data, cursor, nelems>>
         ELSE IF OpenFile(file) # "ok"
         THEN /\ stderr' = Some(OpenFile(file))
              /\ images_data' = <<>>
              /\ cursor' = 1
              /\ pc' = "merge_items"
              /\ UNCHANGED <<nfiles, nelems>>
         ELSE /\ images_data' = <<>>
              /\ pc' = "parse_images"
              /\ UNCHANGED <<nfiles, nelems, cursor, stderr>>
    /\ UNCHANGED <<args_keep, args_exclude, keep_list, exclude_list, keep_set,
                   exclude_set, image_name, all_images_data, exit_code, output, first,
                   sortVars, mergeVars>>

\* one turn of the loop of line 40: lines 41-46
ParseImageElem ==
    /\ pc = "parse_images"
    /\ nelems < MaxElems
    /\ nelems' = nelems + 1
    /\ \E name_im \in OptNameIm :
         IF IsNone(name_im)
         THEN /\ stderr' = Some("missing_NameIm")
              /\ UNCHANGED <<pc, image_name>>
         ELSE /\ image_name' = Val(name_im)
              /\ pc' = "parse_measures"
              /\ UNCHANGED stderr
    /\ UNCHANGED <<args_keep, args_exclude, keep_list, exclude_list, keep_set,
                   exclude_set, nfiles, images_data, cursor, all_images_data, exit_code,
                   output, first, sortVars, mergeVars>>

\* one turn of the loop of line 48: lines 49-73.  An exception nothing catches
\* ends the process with a traceback and exit code 1.
ParseMeasureElem ==
    /\ pc = "parse_measures"
    /\ nelems < MaxElems
    /\ nelems' = nelems + 1
    /\ \E m \in MeasureElems :
         LET r == ParseMeasure(images_data, image_name, m)
         IN /\ images_data' = r.data
            /\ stderr' = IF IsNone(r.msg) THEN stderr ELSE Some(Val(r.msg).kind)
            /\ IF r.err
               THEN pc' = "done" /\ exit_code' = Some(1)
               ELSE UNCHANGED <<pc, exit_code>>
            /\ first' =
                 IF IsValidRecord(m)
                    /\ ~\E f \in first : f.image = image_name /\ f.point = Val(m.NamePt)
                 THEN first \cup {[image |-> image_name, point |-> Val(m.NamePt),
                                   coords |-> CoordsOf(m)]}
                 ELSE first
    /\ UNCHANGED <<args_keep, args_exclude, keep_list, exclude_list, keep_set,
                   exclude_set, nfiles, image_name, cursor, all_images_data, output,
                   sortVars, mergeVars>>

\* the loop of line 48 ends
EndImageElem ==
    /\ pc = "parse_measures"
    /\ pc' = "parse_images"
    /\ UNCHANGED <<args_keep, args_exclude, keep_list, exclude_list, keep_set,
                   exclude_set, nfiles, nelems, image_name, images_data, cursor,
                   all_images_data, stderr, exit_code, output, first, sortVars, mergeVars>>

\* the loop of line 40 ends, line 75 returns (the parser's other locals are
\* gone), line 98 starts
EndParse ==
    /\ pc = "parse_images"
    /\ pc' = "merge_items"
    /\ cursor' = 1
    /\ image_name' = <<>>
    /\ UNCHANGED <<args_keep, args_exclude, keep_list, exclude_list, keep_set,
                   exclude_set, nfiles, nelems, images_data,
                   all_images_data, stderr, exit_code, output, first, sortVars, mergeVars>>

\* one turn of the loops of lines 98-99: lines 100-110
MergeItem ==
    /\ pc = "merge_items"
    /\ cursor <= Len(Items(images_data))
    /\ LET r == MergePoint(all_images_data, keep_set, exclude_set, Items(images_data)[cursor])
       IN /\ all_images_data' = r.data
          /\ stderr' = IF IsNone(r.msg) THEN stderr ELSE Some(Val(r.msg).kind)
    /\ cursor' = cursor + 1
    /\ UNCHANGED <<pc, args_keep, args_exclude, keep_list, exclude_list, keep_set,
                   exclude_set, nfiles, nelems, image_name, images_data, exit_code,
                   output, first, sortVars, mergeVars>>

\* the loops of lines 98-99 end: back to line 91 (images_data is not read
\* again before line 96 assigns it)
EndMergeItems ==
    /\ pc = "merge_items"
    /\ cursor > Len(Items(images_data))
    /\ nfiles' = nfiles + 1
    /\ pc' = "next_file"
    /\ images_data' = <<>>
    /\ cursor' = 1
    /\ UNCHANGED <<args_keep, args_exclude, keep_list, exclude_list, keep_set,
                   exclude_set, nelems, image_name,
                   all_images_data, stderr, exit_code, output, first, sortVars, mergeVars>>

\* the loop of line 91 ends (input_files has at least one file: nargs='+'),
\* line 112 returns, main lines 211-215
ReturnMerged ==
    /\ pc = "next_file"
    /\ nfiles >= 1
    /\ IF Len(all_images_data) = 0
       THEN /\ stderr' = Some("no_images_or_points")
            /\ exit_code' = Some(1)
            /\ pc' = "done"
       ELSE /\ pc' = "write"
            /\ UNCHANGED <<stderr, exit_code>>
    /\ UNCHANGED <<args_keep, args_exclude, keep_list, exclude_list, keep_set,
                   exclude_set, nfiles, nelems, image_name, images_data, cursor,
                   all_images_data, output, first, sortVars, mergeVars>>

\* write_xml_output, lines 120-154, then main returns.  io_ok: whether open and
\* write succeed; when they do not the file is absent or incomplete.
WriteOutput ==
    /\ pc = "write"
    /\ \E io_ok \in BOOLEAN :
         IF io_ok
         THEN /\ output' = Some(Document(all_images_data))
              /\ stderr' = Some("successfully_wrote")
              /\ exit_code' = Some(0)
         ELSE /\ output' \in {None, Some(<<>>)}
              /\ stderr' = Some("error_writing")
              /\ exit_code' = Some(1)
    /\ pc' = "done"
    /\ UNCHANGED <<args_keep, args_exclude, keep_list, exclude_list, keep_set,
                   exclude_set, nfiles, nelems, image_name, images_data, cursor,
                   all_images_data, first, sortVars, mergeVars>>

Next ==
    \/ ParseArgs
    \/ MergeStart
    \/ NextFile
    \/ ParseImageElem
    \/ ParseMeasureElem
    \/ EndImageElem
    \/ EndParse
    \/ MergeItem
    \/ EndMergeItems
    \/ ReturnMerged
    \/ WriteOutput

Spec == Init /\ [][Next]_vars

\* ----------------------------------------------------------------- the sort
\* point ids as they occur in one image
SortIds ==
    { <<"0">>, <<"1">>, <<"2">>, <<"9">>, <<"1", "0">>, <<"0", "1">>, <<"0", "2">>,
      <<"a">>, <<"1", "a">>, <<"a", "b", "c">> }

IsInjective(q) == \A i, j \in 1..Len(q) : q[i] = q[j] => i = j
\* the keys of a dict: distinct, in any insertion order
KeyLists == {q \in UNION {[1..n -> SortIds] : n \in 0..MaxIds} : IsInjective(q)}

InitSort ==
    /\ RunIdle /\ keep_list = None /\ exclude_list = None /\ MergeIdle
    /\ point_ids \in KeyLists
    /\ emitted = None

\* the loop of line 130 over one image's points
EmitPoints ==
    /\ emitted = None
    /\ emitted' = Some(SortedIds(point_ids))
    /\ UNCHANGED <<runVars, point_ids, mergeVars>>

NextSort == EmitPoints

SpecSort == InitSort /\ [][NextSort]_vars

\* ------------------------------------------------- merge_xml_files on files
MergeMeasures ==
    { [NamePt |-> Some(<<"1">>), PtIm |-> Some(Some(<<"1", " ", "2">>))],
      [NamePt |-> Some(<<"1">>), PtIm |-> Some(Some(<<"2", " ", "1">>))],
      [NamePt |-> Some(<<"2">>), PtIm |-> Some(Some(<<"1", " ", "2">>))],
      [NamePt |-> Some(<<"1">>), PtIm |-> Some(Some(<<"x", " ", "1">>))],
      [NamePt |-> Some(<<"1">>), PtIm |-> Some(None)] }

\* image elements of n XML elements: the element and n - 1 measures
ImageElemsOfSize(n) == [NameIm : OptNameIm, measures : [1..(n - 1) -> MergeMeasures]]

\* the lists of image elements of n XML elements in all
RECURSIVE ImageSeqs(_)
ImageSeqs(n) ==
    IF n = 0 THEN {<<>>}
    ELSE UNION { { <<e>> \o rest : e \in ImageElemsOfSize(k), rest \in ImageSeqs(n - k) } :
                 k \in 1..n }

FilesUpTo(max) ==
    FileHeads \cup
    { [kind |-> "xml", root |-> RootTag, images |-> q] :
        q \in UNION {ImageSeqs(n) : n \in 0..max} }

\* keep_list / exclude_list as main hands them over
FilterLists == {parse_list(a) : a \in ListArgs}

Reverse(q) == [i \in 1..Len(q) |-> q[Len(q) + 1 - i]]

\* merge_xml_files(xml_files, keep_list, exclude_list)
Merge ==
    /\ merged = None
    /\ merged' = Some(merge_xml_files(xml_files, keep_list, exclude_list))
    /\ UNCHANGED <<pc, args_keep, args_exclude, keep_list, exclude_list, keep_set,
                   exclude_set, nfiles, nelems, image_name, images_data, cursor,
                   all_images_data, stderr, exit_code, output, first, sortVars,
                   xml_files, merged_alt>>

\* merge_xml_files(xml_files + xml_files, keep_list, exclude_list)
MergeDoubled ==
    /\ merged_alt = None
    /\ merged_alt' = Some(merge_xml_files(xml_files \o xml_files, keep_list, exclude_list))
    /\ UNCHANGED <<pc, args_keep, args_exclude, keep_list, exclude_list, keep_set,
                   exclude_set, nfiles, nelems, image_name, images_data, cursor,
                   all_images_data, stderr, exit_code, output, first, sortVars,
                   xml_files, merged>>

\* merge_xml_files(reversed(xml_files), keep_list, exclude_list)
MergeReversed ==
    /\ merged_alt = None
    /\ merged_alt' = Some(merge_xml_files(Reverse(xml_files), keep_list, exclude_list))
    /\ UNCHANGED <<pc, args_keep, args_exclude, keep_list, exclude_list, keep_set,
                   exclude_set, nfiles, nelems, image_name, images_data, cursor,
                   all_images_data, stderr, exit_code, output, first, sortVars,
                   xml_files, merged>>

\* one file, any filters: merged once and merged with itself
InitIdem ==
    /\ RunIdle /\ SortIdle
    /\ keep_list \in FilterLists
    /\ exclude_list \in FilterLists
    /\ \E f \in FilesUpTo(MaxFileElems) : xml_files = <<f>>
    /\ merged = None /\ merged_alt = None

NextIdem == Merge \/ MergeDoubled

SpecIdem == InitIdem /\ [][NextIdem]_vars

\* two files, no filters: merged in both orders
InitOrder ==
    /\ RunIdle /\ SortIdle
    /\ keep_list = None
    /\ exclude_list = None
    /\ \E a, b \in FilesUpTo(MaxPairElems) : xml_files = <<a, b>>
    /\ merged = None /\ merged_alt = None

NextOrder == Merge \/ MergeReversed

SpecOrder == InitOrder /\ [][NextOrder]_vars

\* ------------------------------------------------------------------ claims
\* the (image name, point id) keys of a mapping, and the value held for one
KeySet(data) ==
    UNION { {<<data[i].k, data[i].v[j].k>> : j \in 1..Len(data[i].v)} : i \in 1..Len(data) }
ValueAt(data, key) == Get(Get(data, key[1]), key[2])

\* the process was ended by an exception nothing catches
Crashed == pc = "done" /\ stderr = Some("AttributeError")
\* merge_xml_files has returned its accumulator
MergeReturned == pc = "write" \/ (pc = "done" /\ ~Crashed)

\* the identifiers a --keep / --exclude value names: its comma-separated
\* tokens, trimmed, the empty ones dropped
TokenSet(list_str) ==
    {Strip(t) : t \in ToSet(SplitOn(Val(list_str), ",", <<>>))} \ {<<>>}

\* the coordinates of the first valid record read for a key
FirstCoords(key) == (CHOOSE f \in first : f.image = key[1] /\ f.point = key[2]).coords
FirstKeys == {<<f.image, f.point>> : f \in first}

\* C1: first-wins holds globally: at every step each accumulator entry holds
\* the coordinates of the earliest valid record read for its key (files in the
\* caller's order, records in document order), and an entry, once populated,
\* is never overwritten or removed by a later record.
C1_FirstWins ==
    [][ /\ \A key \in KeySet(all_images_data') :
             /\ key \in FirstKeys'
             /\ ValueAt(all_images_data', key) = FirstCoords(key)'
        /\ \A key \in KeySet(all_images_data) :
             /\ key \in KeySet(all_images_data')
             /\ ValueAt(all_images_data', key) = ValueAt(all_images_data, key) ]_vars

\* C1 witness: the merge loop has just discarded a record whose key the
\* accumulator already held with other coordinates.
C1_Witness ==
    /\ pc = "merge_items"
    /\ cursor > 1
    /\ stderr = Some("already_exists")
    /\ LET it == Items(images_data)[cursor - 1]
       IN /\ <<it.image, it.point>> \in KeySet(all_images_data)
          /\ ValueAt(all_images_data, <<it.image, it.point>>) # it.coords

\* C2: filter composition law: once merge_xml_files has returned, a key the
\* parser yielded is in the accumulator iff (--keep is absent or names its
\* point id) and (--exclude is absent or does not name its point id).
C2_FilterLaw ==
    MergeReturned =>
      /\ KeySet(all_images_data) \subseteq FirstKeys
      /\ \A key \in FirstKeys :
           key \in KeySet(all_images_data)
             <=> /\ (IsNone(args_keep) \/ key[2] \in TokenSet(args_keep))
                 /\ (IsNone(args_exclude) \/ key[2] \notin TokenSet(args_exclude))

\* C3: the run ends with exit code 1 if the accumulator is empty after the
\* merge or the write fails, and with exit code 0 otherwise; with an empty
\* accumulator there is no output file and no success message.
C3_ExitCode ==
    pc = "done" =>
      /\ exit_code \in {Some(0), Some(1)}
      /\ exit_code = Some(1)
           <=> (Len(all_images_data) = 0 \/ stderr = Some("error_writing"))
      /\ Len(all_images_data) = 0 => (output = None /\ stderr # Some("successfully_wrote"))

\* C4: a malformed record (a missing NameIm, NamePt or PtIm, a PtIm content of
\* fewer than two tokens, empty content included, or a non-numeric token among
\* the first two) never aborts the run.
C4_NeverAborts == ~Crashed

\* C9: whenever --keep is given, its token set restricts the result, also
\* when that set is empty: every key of the returned accumulator has its
\* point id among the tokens.
C9_KeepRestricts ==
    (MergeReturned /\ ~IsNone(args_keep)) =>
      \A key \in KeySet(all_images_data) : key[2] \in TokenSet(args_keep)

\* C10: in every state of the parser and of the merge, every image name that
\* is a key of the per-file mapping or of the accumulator maps to at least one
\* point, and so does every image element of the output.
C10_NoEmptyImage ==
    /\ \A i \in 1..Len(images_data) : Len(images_data[i].v) >= 1
    /\ \A i \in 1..Len(all_images_data) : Len(all_images_data[i].v) >= 1
    /\ (~IsNone(output) =>
          \A i \in 1..Len(Val(output)) : Len(Val(output)[i].measures) >= 1)

\* C10 witness: the accumulator goes to the writer, and an image with a valid
\* record in the input, all of whose points were filtered out, is no key of it.
C10_Witness ==
    /\ pc = "write"
    /\ \E f \in first : ~Has(all_images_data, f.image)

\* the order the writer is said to emit point ids in: every all-digit id
\* before every other id, all-digit ids by (length, then lexicographic), the
\* others lexicographically
ComesBefore(x, y) ==
    \/ IsDigit(x) /\ ~IsDigit(y)
    \/ IsDigit(x) /\ IsDigit(y) /\ (Len(x) < Len(y) \/ (Len(x) = Len(y) /\ StrLess(x, y)))
    \/ ~IsDigit(x) /\ ~IsDigit(y) /\ StrLess(x, y)

\* C5: whatever the insertion order, the writer emits the point ids of an
\* image, each once, in the composite-key order.
C5_CompositeOrder ==
    ~IsNone(emitted) =>
      LET e == Val(emitted)
      IN /\ Len(e) = Len(point_ids)
         /\ ToSet(e) = ToSet(point_ids)
         /\ \A i, j \in 1..Len(e) : i < j => ComesBefore(e[i], e[j])

\* C5 witness: the ids "10", "2", "abc", "1" are emitted as "1", "2", "10", "abc".
C5_Witness ==
    /\ point_ids = << <<"1", "0">>, <<"2">>, <<"a", "b", "c">>, <<"1">> >>
    /\ emitted = Some(<< <<"1">>, <<"2">>, <<"1", "0">>, <<"a", "b", "c">> >>)

\* a decimal numeral as a number is written: no leading zero
IsCanonical(x) == IsDigit(x) /\ (Len(x) = 1 \/ x[1] # "0")

\* C6 as stated: the all-digit ids of an image are emitted in ascending order
\* of their numeric value.
C6_NumericOrder ==
    ~IsNone(emitted) =>
      LET e == Val(emitted)
      IN \A i, j \in 1..Len(e) :
           (i < j /\ IsDigit(e[i]) /\ IsDigit(e[j]))
             => DecimalValue(e[i], 0) <= DecimalValue(e[j], 0)

\* C6 as amended: the all-digit ids without a leading zero are emitted in
\* ascending order of their numeric value.
C6_NumericOrderCanonical ==
    ~IsNone(emitted) =>
      LET e == Val(emitted)
      IN \A i, j \in 1..Len(e) :
           (i < j /\ IsCanonical(e[i]) /\ IsCanonical(e[j]))
             => DecimalValue(e[i], 0) < DecimalValue(e[j], 0)

\* C6 witness: ids of different widths, inserted in descending order, are
\* emitted in ascending numeric order.
C6_Witness ==
    /\ point_ids = << <<"1", "0">>, <<"9">>, <<"2">> >>
    /\ emitted = Some(<< <<"2">>, <<"9">>, <<"1", "0">> >>)

CountKind(log, kind) == Cardinality({i \in 1..Len(log) : log[i].kind = kind})
Entries(data) == {[key |-> key, coords |-> ValueAt(data, key)] : key \in KeySet(data)}

\* C7: idempotence: merging [F, F] gives the keys and values of merging [F];
\* the second pass prints one already-exists line per surviving key and the
\* first pass none.  (A run an exception ends has no accumulator; both end so.)
C7_Idempotent ==
    (~IsNone(merged) /\ ~IsNone(merged_alt)) =>
      LET once == Val(merged)
          twice == Val(merged_alt)
      IN /\ once.err = twice.err
         /\ ~once.err =>
              /\ Entries(twice.data) = Entries(once.data)
              /\ CountKind(once.log, "already_exists") = 0
              /\ CountKind(twice.log, "already_exists") = Cardinality(KeySet(once.data))

\* C7 witness: a file with a filter in force, a surviving key and a duplicate
\* within the file has been merged once and twice.
C7_Witness ==
    /\ ~IsNone(merged) /\ ~IsNone(merged_alt)
    /\ ~IsNone(exclude_list) /\ Len(Val(exclude_list)) > 0
    /\ ~Val(merged).err
    /\ Cardinality(KeySet(Val(merged).data)) = 1
    /\ CountKind(Val(merged).log, "duplicate_in_file") = 1
    /\ CountKind(Val(merged_alt).log, "already_exists") = 1

\* the keys a file yields when parsed
FileKeys(file) == IF IsFile(file) THEN KeySet(parse_xml_file(file).data) ELSE {}

\* C8: without filters, merging [A, B] and [B, A] gives the same set of keys;
\* the value of a key differs only if the key occurs in both files.
C8_OrderInsensitiveKeys ==
    (~IsNone(merged) /\ ~IsNone(merged_alt)) =>
      LET ab == Val(merged)
          ba == Val(merged_alt)
      IN /\ ab.err = ba.err
         /\ ~ab.err =>
              /\ KeySet(ab.data) = KeySet(ba.data)
              /\ \A key \in KeySet(ab.data) :
                   ValueAt(ab.data, key) # ValueAt(ba.data, key)
                     => key \in FileKeys(xml_files[1]) \cap FileKeys(xml_files[2])

\* C8 witness: two files that share a key with different coordinates and
\* have been merged in both orders: same keys, another winner.
C8_Witness ==
    /\ ~IsNone(merged) /\ ~IsNone(merged_alt)
    /\ ~Val(merged).err
    /\ \E key \in KeySet(Val(merged).data) :
         ValueAt(Val(merged).data, key) # ValueAt(Val(merged_alt).data, key)

====
